---- MODULE Spec2Model ----
(***************************************************************************)
(* Model of internal/rabbitmq/client.go: the Client that owns one AMQP     *)
(* connection and one channel, its close-watcher goroutine with the        *)
(* backoff-retry sequence, and the Publish / HealthCheck / Close calls of  *)
(* concurrent callers.                                                     *)
(*                                                                         *)
(* Connections are numbered in dial order.  A channel is named by the      *)
(* connection it was opened on (connect() opens one channel per dial).     *)
(* A watcher goroutine is named by the connection whose successful         *)
(* connect() was followed by the watchConnection() call that spawned it.   *)
(***************************************************************************)
EXTENDS Integers, FiniteSets, Sequences, TLC

\* ---------------------------------------------------------------- bounds
MaxConns == 2      \* successful dials in one behaviour
MaxOps   == 2      \* Publish / HealthCheck / Close calls in one behaviour

\* ------------------------------------------------------- program constants
maxReconnectAttempts == 5
initialBackoff       == 1
maxBackoff           == 30

Callers == {1, 2}
ConnIds == 1 .. MaxConns
Nil     == 0

URLs == {"amqp://ok", "invalid://url", ""}
ValidURL(u) == u \in {"amqp://ok", "amqp://test"}

\* holders of c.mu
Free        == [k |-> "free", i |-> 0]
ByCaller(p) == [k |-> "caller", i |-> p]
ByWatcher(w) == [k |-> "watcher", i |-> w]

VARIABLES
    phase,      \* "new" before construction, "live" client exists, "failed" NewClient returned an error
    url,        \* c.url
    conn,       \* c.conn    (Nil or a connection id)
    channel,    \* c.channel (Nil or the id of the connection it was opened on)
    closed,     \* c.closed
    mu,         \* holder of c.mu
    nextConn,   \* number of connections dialed successfully so far
    connOpen,   \* connection objects for which IsClosed() is false
    chanOpen,   \* channel objects that are open
    cs,         \* per caller: the call in progress and its result
    ws,         \* per watcher goroutine: position, subscription, notification, attempt, outcome
    ops,        \* calls started so far
    panicked,   \* a goroutine dereferenced a nil *Connection / *Channel
    closeReturned, \* some Close() call has returned
    dropped,    \* connections that were closed abnormally while the client was not shut down
    broker,     \* the publishings the broker has accepted, in arrival order
    evIn,       \* arguments handed to a function of package event
    evOut       \* the function of package event applied to evIn, and what it returned

eventVars == <<evIn, evOut>>

clientVars == <<phase, url, conn, channel, closed, mu, nextConn, connOpen, chanOpen,
                cs, ws, ops, panicked, closeReturned, dropped, broker>>

vars == <<phase, url, conn, channel, closed, mu, nextConn, connOpen, chanOpen,
          cs, ws, ops, panicked, closeReturned, dropped, broker, evIn, evOut>>

IdleCall == [pc |-> "idle", op |-> "none", res |-> "none",
             ens |-> 0, decl |-> 0, send |-> 0, dial |-> 0, after |-> FALSE, msg |-> 0]

NoWatcher == [pc |-> "none", sub |-> Nil, note |-> "none", attempt |-> 0,
              dials |-> 0, slept |-> 0, outcome |-> "none"]

\* watchConnection(): `go func() {...}` starts a goroutine at line 65
Spawned == [NoWatcher EXCEPT !.pc = "sub"]

\* the goroutine has returned: its locals are gone, its outcome is recorded
Returned(o) == [NoWatcher EXCEPT !.pc = "done", !.outcome = o]

\* no client has been constructed yet
InitClient ==
    /\ phase = "new"
    /\ url = ""
    /\ conn = Nil
    /\ channel = Nil
    /\ closed = FALSE
    /\ mu = Free
    /\ nextConn = 0
    /\ connOpen = {}
    /\ chanOpen = {}
    /\ cs = [p \in Callers |-> IdleCall]
    /\ ws = [w \in ConnIds |-> NoWatcher]
    /\ ops = 0
    /\ panicked = FALSE
    /\ closeReturned = FALSE
    /\ dropped = {}
    /\ broker = <<>>

\* map[string]string: the nil map and make(map[string]string)
NilMap == [nil |-> TRUE, kv |-> [k \in {} |-> <<>>]]
MakeMap == [nil |-> FALSE, kv |-> [k \in {} |-> <<>>]]

\* package event: no arguments chosen, no function applied
NoArguments == [str |-> <<>>, name |-> <<>>, namespace |-> <<>>, secretName |-> <<>>,
                labels |-> NilMap, annotations |-> NilMap]
NotApplied == [fn |-> "none"]

Init ==
    /\ InitClient
    /\ evIn = NoArguments
    /\ evOut = NotApplied

\* ------------------------------------------------------------ amqp objects

\* Close notification delivered to the receivers registered with NotifyClose on
\* connection x: "err" for an abnormal close, "nil" for a graceful one.
Notified(W, x, n) ==
    [w \in DOMAIN W |->
        IF W[w].pc = "wait" /\ W[w].sub = x /\ W[w].note = "none"
        THEN [W[w] EXCEPT !.note = n] ELSE W[w]]

\* amqp.Dial can succeed only for a well-formed URL (and while ids remain)
CanDial == ValidURL(url) /\ nextConn < MaxConns

Running == phase = "live" /\ ~panicked

\* variant: c.mu is never waited for
LockIgnored == TRUE

\* c.mu.Unlock(), and c.mu.Lock() by caller p / watcher w
Unlock     == mu' = Free
LockFree   == mu = Free

\* reconnect(), lines 112-117: close the old channel if the field is non-nil,
\* close the old connection if the field is non-nil and it is not closed yet.
\* Closing a connection closes its channel and sends a graceful (nil) close
\* notification.
\* variant: the old connection is left open when reconnecting
KeepOldConnOpen  == connOpen
CloseOldConnOpen == connOpen \ {conn}
CloseOldChanOpen == chanOpen \ {channel, conn}
CloseOldWs(W)    == IF conn \in connOpen THEN Notified(W, conn, "nil") ELSE W

\* ensureConnection(), line 127
NeedsReconnect == conn = Nil \/ conn \notin connOpen \/ channel = Nil

\* HealthCheck(), lines 185-190
\* variant: IsClosed() is not consulted
HealthFailsOnNilOnly == conn = Nil \/ channel = Nil
HealthFails == conn = Nil \/ conn \notin connOpen \/ channel = Nil

\* reconnectWithBackoff(), line 92
\* variant: the shutdown flag is not checked before dialing
NeverAborts     == FALSE
ReconnectAborts == closed

\* watchConnection(), line 72
WatcherStops == closed

\* variant: the sleep grows by initialBackoff with every attempt
BackoffLinear(attempt) == IF initialBackoff * (attempt + 1) < maxBackoff
                          THEN initialBackoff * (attempt + 1) ELSE maxBackoff

\* reconnectWithBackoff(), lines 85-88: min(initialBackoff * 2^attempt, maxBackoff)
Pow2(n) == IF n = 0 THEN 1 ELSE IF n = 1 THEN 2 ELSE IF n = 2 THEN 4
           ELSE IF n = 3 THEN 8 ELSE IF n = 4 THEN 16 ELSE 32
Min(a, b) == IF a < b THEN a ELSE b
Backoff(attempt) == Min(initialBackoff * Pow2(attempt), maxBackoff)

\* ------------------------------------------------------------ construction

\* variant: the error of connect() is ignored; the client is returned and its
\* watcher started whatever connect() returned
NewClientIgnoringError(u, dialOk, chanOk) ==
    /\ UNCHANGED <<broker, eventVars>>
    /\ phase = "new"
    /\ dialOk => ValidURL(u) /\ nextConn < MaxConns
    /\ url' = u
    /\ phase' = "live"
    /\ nextConn' = IF dialOk THEN nextConn + 1 ELSE nextConn
    /\ conn' = IF dialOk THEN nextConn + 1 ELSE Nil
    /\ channel' = IF dialOk /\ chanOk THEN nextConn + 1 ELSE Nil
    /\ connOpen' = IF dialOk /\ chanOk THEN connOpen \cup {nextConn + 1} ELSE connOpen
    /\ chanOpen' = IF dialOk /\ chanOk THEN chanOpen \cup {nextConn + 1} ELSE chanOpen
    /\ ws' = [ws EXCEPT ![1] = Spawned]
    /\ UNCHANGED <<closed, mu, cs, ops, panicked, closeReturned, dropped>>

\* amqp.Persistent, the DeliveryMode of every publishing (line 168)
Persistent == 2

\* the amqp.Publishing a Publish call hands to the broker (lines 165-170); the
\* message argument of the call is identified by its ordinal among the caller's
\* messages
Delivered(p) == [from |-> p, msg |-> cs[p].msg, mode |-> Persistent]

\* NewClient(url): connect() then watchConnection(); an error returns no client.
NewClient(u, dialOk, chanOk) ==
    /\ UNCHANGED <<broker, eventVars>>
    /\ phase = "new"
    /\ dialOk => ValidURL(u) /\ nextConn < MaxConns
    /\ url' = u
    /\ IF dialOk /\ chanOk
       THEN /\ phase' = "live"
            /\ nextConn' = nextConn + 1
            /\ conn' = nextConn + 1
            /\ channel' = nextConn + 1
            /\ connOpen' = connOpen \cup {nextConn + 1}
            /\ chanOpen' = chanOpen \cup {nextConn + 1}
            /\ ws' = [ws EXCEPT ![nextConn + 1] = Spawned]
       ELSE /\ phase' = "failed"
            /\ nextConn' = IF dialOk THEN nextConn + 1 ELSE nextConn
            /\ UNCHANGED <<conn, channel, connOpen, chanOpen, ws>>
    /\ UNCHANGED <<closed, mu, cs, ops, panicked, closeReturned, dropped>>

\* &Client{url: "amqp://test"}: the struct built without NewClient, as the
\* package's tests do; no connection, no channel, no watcher.
ClientLiteral ==
    /\ UNCHANGED <<broker, eventVars>>
    /\ phase = "new"
    /\ phase' = "live"
    /\ url' = "amqp://test"
    /\ UNCHANGED <<conn, channel, closed, mu, nextConn, connOpen, chanOpen,
                   cs, ws, ops, panicked, closeReturned, dropped>>

\* ------------------------------------------------------------------ callers

CanCall(p) == Running /\ cs[p].pc = "idle" /\ ops < MaxOps

\* a call by caller p begins; msg counts the messages p has handed to Publish
NewCall(p, o) == [IdleCall EXCEPT !.op = o, !.after = closeReturned, !.msg = cs[p].msg]

\* variant: once a backoff-retry sequence has been exhausted ensureConnection
\* reports the failure without dialing
EnsureConnectionGivesUp(p) ==
    /\ UNCHANGED <<broker, eventVars>>
    /\ CanCall(p)
    /\ LockFree
    /\ ops' = ops + 1
    /\ IF NeedsReconnect /\ \E w \in ConnIds : ws[w].outcome = "exhausted"
       THEN /\ cs' = [cs EXCEPT ![p] = [NewCall(p, "Publish") EXCEPT
                                           !.res = "ensureErr", !.ens = 1, !.msg = cs[p].msg + 1]]
            /\ UNCHANGED <<mu, connOpen, chanOpen, ws>>
       ELSE IF NeedsReconnect
       THEN /\ mu' = ByCaller(p)
            /\ connOpen' = CloseOldConnOpen
            /\ chanOpen' = CloseOldChanOpen
            /\ ws' = CloseOldWs(ws)
            /\ cs' = [cs EXCEPT ![p] = [NewCall(p, "Publish") EXCEPT !.pc = "ens_dial", !.ens = 1, !.msg = cs[p].msg + 1]]
       ELSE /\ cs' = [cs EXCEPT ![p] = [NewCall(p, "Publish") EXCEPT !.pc = "pub_lock", !.ens = 1, !.msg = cs[p].msg + 1]]
            /\ UNCHANGED <<mu, connOpen, chanOpen, ws>>
    /\ UNCHANGED <<phase, url, conn, channel, closed, nextConn, panicked, closeReturned, dropped>>

\* Publish() line 135 -> ensureConnection() lines 124-130, up to the dial.
EnsureConnection(p) ==
    /\ UNCHANGED <<broker, eventVars>>
    /\ CanCall(p)
    /\ LockFree
    /\ ops' = ops + 1
    /\ IF NeedsReconnect
       THEN /\ mu' = ByCaller(p)
            /\ connOpen' = CloseOldConnOpen
            /\ chanOpen' = CloseOldChanOpen
            /\ ws' = CloseOldWs(ws)
            /\ cs' = [cs EXCEPT ![p] = [NewCall(p, "Publish") EXCEPT !.pc = "ens_dial", !.ens = 1, !.msg = cs[p].msg + 1]]
       ELSE /\ cs' = [cs EXCEPT ![p] = [NewCall(p, "Publish") EXCEPT !.pc = "pub_lock", !.ens = 1, !.msg = cs[p].msg + 1]]
            /\ UNCHANGED <<mu, connOpen, chanOpen, ws>>
    /\ UNCHANGED <<phase, url, conn, channel, closed, nextConn, panicked, closeReturned, dropped>>

\* variant: a failed dial is retried under the same lock hold, up to
\* maxReconnectAttempts times
EnsureDialRetrying(p, ok) ==
    /\ UNCHANGED <<broker, eventVars>>
    /\ Running
    /\ cs[p].pc = "ens_dial"
    /\ ok => CanDial
    /\ IF ok
       THEN /\ nextConn' = nextConn + 1
            /\ conn' = nextConn + 1
            /\ connOpen' = connOpen \cup {nextConn + 1}
            /\ cs' = [cs EXCEPT ![p].pc = "ens_chan", ![p].dial = @ + 1]
            /\ UNCHANGED mu
       ELSE /\ conn' = Nil
            /\ IF cs[p].dial + 1 < maxReconnectAttempts
               THEN /\ cs' = [cs EXCEPT ![p].dial = @ + 1]
                    /\ UNCHANGED mu
               ELSE /\ Unlock
                    /\ cs' = [cs EXCEPT ![p].pc = "idle", ![p].res = "ensureErr", ![p].dial = @ + 1]
            /\ UNCHANGED <<nextConn, connOpen>>
    /\ UNCHANGED <<phase, url, channel, closed, chanOpen, ws, ops, panicked, closeReturned, dropped>>

\* connect() line 48 called from reconnect() called from ensureConnection()
EnsureDial(p, ok) ==
    /\ UNCHANGED <<broker, eventVars>>
    /\ Running
    /\ cs[p].pc = "ens_dial"
    /\ ok => CanDial
    /\ IF ok
       THEN /\ nextConn' = nextConn + 1
            /\ conn' = nextConn + 1
            /\ connOpen' = connOpen \cup {nextConn + 1}
            /\ cs' = [cs EXCEPT ![p].pc = "ens_chan", ![p].dial = @ + 1]
            /\ UNCHANGED mu
       ELSE /\ conn' = Nil
            /\ Unlock
            /\ cs' = [cs EXCEPT ![p].pc = "idle", ![p].res = "ensureErr", ![p].dial = @ + 1]
            /\ UNCHANGED <<nextConn, connOpen>>
    /\ UNCHANGED <<phase, url, channel, closed, chanOpen, ws, ops, panicked, closeReturned, dropped>>

\* connect() lines 53-59 called from ensureConnection(); line 130 returns
\* reconnect()'s result and starts no watcher.
EnsureChannel(p, ok) ==
    /\ UNCHANGED <<broker, eventVars>>
    /\ Running
    /\ cs[p].pc = "ens_chan"
    /\ ok => conn \in connOpen
    /\ Unlock
    /\ IF ok
       THEN /\ channel' = conn
            /\ chanOpen' = chanOpen \cup {conn}
            /\ cs' = [cs EXCEPT ![p].pc = "pub_lock"]
            /\ UNCHANGED <<connOpen, ws>>
       ELSE /\ channel' = Nil
            /\ connOpen' = connOpen \ {conn}
            /\ chanOpen' = chanOpen \ {conn}
            /\ ws' = IF conn \in connOpen THEN Notified(ws, conn, "nil") ELSE ws
            /\ cs' = [cs EXCEPT ![p].pc = "idle", ![p].res = "ensureErr"]
    /\ UNCHANGED <<phase, url, conn, closed, nextConn, ops, panicked, closeReturned, dropped>>

\* Publish() lines 139-153: second lock hold, c.channel.ExchangeDeclare.
\* A declare rejected on an open channel is a channel exception, which closes
\* the channel; on a closed channel the call fails.
PublishDeclare(p, ok) ==
    /\ UNCHANGED <<broker, eventVars>>
    /\ Running
    /\ cs[p].pc = "pub_lock"
    /\ LockFree
    /\ ok => channel \in chanOpen
    /\ IF channel = Nil
       THEN /\ panicked' = TRUE
            /\ UNCHANGED <<mu, chanOpen, cs>>
       ELSE /\ IF ok
               THEN /\ mu' = ByCaller(p)
                    /\ cs' = [cs EXCEPT ![p].pc = "pub_send", ![p].decl = @ + 1]
                    /\ UNCHANGED chanOpen
               ELSE /\ chanOpen' = chanOpen \ {channel}
                    /\ cs' = [cs EXCEPT ![p].pc = "idle", ![p].res = "declareErr", ![p].decl = @ + 1]
                    /\ UNCHANGED mu
            /\ UNCHANGED panicked
    /\ UNCHANGED <<phase, url, conn, channel, closed, nextConn, connOpen, ws, ops, closeReturned, dropped>>

\* variant: the broker receives a publishing ahead of the ones it already has
PublishSendOutOfOrder(p, msgOk, ok) ==
    /\ UNCHANGED eventVars
    /\ broker' = IF msgOk /\ ok THEN <<Delivered(p)>> \o broker ELSE broker
    /\ Running
    /\ cs[p].pc = "pub_send"
    /\ ok => msgOk /\ channel \in chanOpen
    /\ Unlock
    /\ cs' = [cs EXCEPT ![p].pc = "idle",
                        ![p].res = IF ~msgOk THEN "marshalErr" ELSE IF ok THEN "ok" ELSE "publishErr",
                        ![p].send = IF msgOk THEN @ + 1 ELSE @]
    /\ UNCHANGED <<phase, url, conn, channel, closed, nextConn, connOpen, chanOpen, ws, ops,
                   panicked, closeReturned, dropped>>

\* variant: a failed send is attempted once more instead of being returned
PublishSendRetrying(p, msgOk, ok) ==
    /\ UNCHANGED eventVars
    /\ broker' = IF msgOk /\ ok THEN Append(broker, Delivered(p)) ELSE broker
    /\ Running
    /\ cs[p].pc = "pub_send"
    /\ ok => msgOk /\ channel \in chanOpen
    /\ IF msgOk /\ ~ok /\ cs[p].send = 0
       THEN /\ cs' = [cs EXCEPT ![p].send = @ + 1]
            /\ UNCHANGED mu
       ELSE /\ Unlock
            /\ cs' = [cs EXCEPT ![p].pc = "idle",
                                ![p].res = IF ~msgOk THEN "marshalErr" ELSE IF ok THEN "ok" ELSE "publishErr",
                                ![p].send = IF msgOk THEN @ + 1 ELSE @]
    /\ UNCHANGED <<phase, url, conn, channel, closed, nextConn, connOpen, chanOpen, ws, ops,
                   panicked, closeReturned, dropped>>

\* Publish() lines 155-177: json.Marshal, c.channel.PublishWithContext, unlock.
PublishSend(p, msgOk, ok) ==
    /\ UNCHANGED eventVars
    /\ broker' = IF msgOk /\ ok THEN Append(broker, Delivered(p)) ELSE broker
    /\ Running
    /\ cs[p].pc = "pub_send"
    /\ ok => msgOk /\ channel \in chanOpen
    /\ Unlock
    /\ cs' = [cs EXCEPT ![p].pc = "idle",
                        ![p].res = IF ~msgOk THEN "marshalErr" ELSE IF ok THEN "ok" ELSE "publishErr",
                        ![p].send = IF msgOk THEN @ + 1 ELSE @]
    /\ UNCHANGED <<phase, url, conn, channel, closed, nextConn, connOpen, chanOpen, ws, ops,
                   panicked, closeReturned, dropped>>

\* HealthCheck() lines 182-190
HealthCheckBegin(p) ==
    /\ UNCHANGED <<broker, eventVars>>
    /\ CanCall(p)
    /\ LockFree
    /\ ops' = ops + 1
    /\ IF HealthFails
       THEN /\ cs' = [cs EXCEPT ![p] = [NewCall(p, "HealthCheck") EXCEPT !.res = "healthErr"]]
            /\ UNCHANGED mu
       ELSE /\ cs' = [cs EXCEPT ![p] = [NewCall(p, "HealthCheck") EXCEPT !.pc = "hc_io"]]
            /\ mu' = ByCaller(p)
    /\ UNCHANGED <<phase, url, conn, channel, closed, nextConn, connOpen, chanOpen, ws,
                   panicked, closeReturned, dropped>>

\* HealthCheck() lines 195-207: c.channel.QueueDeclare round-trip, unlock.
HealthCheckIO(p, ok) ==
    /\ UNCHANGED <<broker, eventVars>>
    /\ Running
    /\ cs[p].pc = "hc_io"
    /\ ok => channel \in chanOpen
    /\ Unlock
    /\ chanOpen' = IF ok THEN chanOpen ELSE chanOpen \ {channel}
    /\ cs' = [cs EXCEPT ![p].pc = "idle", ![p].res = IF ok THEN "ok" ELSE "healthErr"]
    /\ UNCHANGED <<phase, url, conn, channel, closed, nextConn, connOpen, ws, ops,
                   panicked, closeReturned, dropped>>

\* Close() lines 212-215
CloseBegin(p) ==
    /\ UNCHANGED <<broker, eventVars>>
    /\ CanCall(p)
    /\ LockFree
    /\ ops' = ops + 1
    /\ mu' = ByCaller(p)
    /\ closed' = TRUE
    /\ cs' = [cs EXCEPT ![p] = [NewCall(p, "Close") EXCEPT !.pc = "cl_io"]]
    /\ UNCHANGED <<phase, url, conn, channel, nextConn, connOpen, chanOpen, ws,
                   panicked, closeReturned, dropped>>

\* variant: the connection's close error replaces the channel's
CloseResultLastOnly(chErr, cnErr) ==
    IF cnErr THEN "connErr" ELSE IF chErr THEN "chanErr" ELSE "ok"

\* Close() lines 217-235.  Channel.Close() on a closed channel returns nil;
\* Connection.Close() on a closed connection returns ErrClosed.  Closing an
\* open object may report a transport error, and leaves the object closed.
CloseResult(chErr, cnErr) ==
    IF chErr /\ cnErr THEN "chanErr;connErr"
    ELSE IF chErr THEN "chanErr"
    ELSE IF cnErr THEN "connErr"
    ELSE "ok"

CloseTeardown(p, chErr, cnErr) ==
    /\ UNCHANGED <<broker, eventVars>>
    /\ Running
    /\ cs[p].pc = "cl_io"
    /\ chErr => channel \in chanOpen
    /\ cnErr => conn # Nil
    /\ (conn # Nil /\ conn \notin connOpen) => cnErr
    /\ Unlock
    /\ connOpen' = connOpen \ {conn}
    /\ chanOpen' = chanOpen \ {channel, conn}
    /\ ws' = IF conn \in connOpen THEN Notified(ws, conn, "nil") ELSE ws
    /\ cs' = [cs EXCEPT ![p].pc = "idle", ![p].res = CloseResult(chErr, cnErr)]
    /\ closeReturned' = TRUE
    /\ UNCHANGED <<phase, url, conn, channel, closed, nextConn, ops, panicked, dropped>>

\* -------------------------------------------------- close-watcher goroutine

\* watchConnection() line 65: c.conn is read without the lock and NotifyClose
\* is called on it.  On a nil *Connection the call dereferences nil.  On a
\* connection that is already closed the library closes the receiver at once,
\* so the receive at line 66 yields nil.
WatchSubscribe(w) ==
    /\ UNCHANGED <<broker, eventVars>>
    /\ Running
    /\ ws[w].pc = "sub"
    /\ IF conn = Nil
       THEN /\ panicked' = TRUE
            /\ UNCHANGED ws
       ELSE /\ ws' = [ws EXCEPT ![w].pc = "wait", ![w].sub = conn,
                                ![w].note = IF conn \in connOpen THEN "none" ELSE "nil"]
            /\ UNCHANGED panicked
    /\ UNCHANGED <<phase, url, conn, channel, closed, mu, nextConn, connOpen, chanOpen,
                   cs, ops, closeReturned, dropped>>

\* watchConnection() lines 66-76: receive the notification; nil is a graceful
\* close; otherwise lock, check c.closed, unlock.
WatchWake(w) ==
    /\ UNCHANGED <<broker, eventVars>>
    /\ Running
    /\ ws[w].pc = "wait"
    /\ ws[w].note # "none"
    /\ IF ws[w].note = "nil"
       THEN ws' = [ws EXCEPT ![w] = Returned("graceful")]
       ELSE /\ LockFree
            /\ IF WatcherStops
               THEN ws' = [ws EXCEPT ![w] = Returned("shutdown")]
               ELSE ws' = [ws EXCEPT ![w].pc = "sleep"]
    /\ UNCHANGED <<phase, url, conn, channel, closed, mu, nextConn, connOpen, chanOpen,
                   cs, ops, panicked, closeReturned, dropped>>

\* reconnectWithBackoff() lines 84-89: time.Sleep(backoff) of this attempt
BackoffSleep(w) ==
    /\ UNCHANGED <<broker, eventVars>>
    /\ Running
    /\ ws[w].pc = "sleep"
    /\ ws' = [ws EXCEPT ![w].pc = "rlock", ![w].slept = @ + Backoff(ws[w].attempt)]
    /\ UNCHANGED <<phase, url, conn, channel, closed, mu, nextConn, connOpen, chanOpen,
                   cs, ops, panicked, closeReturned, dropped>>

\* reconnectWithBackoff() lines 91-97 and reconnect() lines 112-117: lock,
\* check c.closed, close the old channel and connection.
ReconnectLock(w) ==
    /\ UNCHANGED <<broker, eventVars>>
    /\ Running
    /\ ws[w].pc = "rlock"
    /\ LockFree
    /\ IF ReconnectAborts
       THEN /\ ws' = [ws EXCEPT ![w] = Returned("closedDuring")]
            /\ UNCHANGED <<mu, connOpen, chanOpen>>
       ELSE /\ mu' = ByWatcher(w)
            /\ connOpen' = CloseOldConnOpen
            /\ chanOpen' = CloseOldChanOpen
            /\ ws' = [CloseOldWs(ws) EXCEPT ![w].pc = "rdial"]
    /\ UNCHANGED <<phase, url, conn, channel, closed, nextConn, cs, ops, panicked,
                   closeReturned, dropped>>

\* reconnectWithBackoff() lines 97-100, 107: a failed attempt unlocks and
\* continues; after maxReconnectAttempts the loop ends with the exhaustion error.
FailedAttempt(W, w) ==
    IF W[w].attempt + 1 >= maxReconnectAttempts
    THEN [W EXCEPT ![w] = Returned("exhausted")]
    ELSE [W EXCEPT ![w].pc = "sleep", ![w].attempt = @ + 1]

\* connect() line 48 called from reconnectWithBackoff()
ReconnectDial(w, ok) ==
    /\ UNCHANGED <<broker, eventVars>>
    /\ Running
    /\ ws[w].pc = "rdial"
    /\ ok => CanDial
    /\ IF ok
       THEN /\ nextConn' = nextConn + 1
            /\ conn' = nextConn + 1
            /\ connOpen' = connOpen \cup {nextConn + 1}
            /\ ws' = [ws EXCEPT ![w].pc = "rchan", ![w].dials = @ + 1]
            /\ UNCHANGED mu
       ELSE /\ conn' = Nil
            /\ Unlock
            /\ ws' = FailedAttempt([ws EXCEPT ![w].dials = @ + 1], w)
            /\ UNCHANGED <<nextConn, connOpen>>
    /\ UNCHANGED <<phase, url, channel, closed, chanOpen, cs, ops, panicked, closeReturned, dropped>>

\* connect() lines 53-59 called from reconnectWithBackoff(); on success
\* lines 102-104: unlock, watchConnection(), return nil.
ReconnectChannel(w, ok) ==
    /\ UNCHANGED <<broker, eventVars>>
    /\ Running
    /\ ws[w].pc = "rchan"
    /\ ok => conn \in connOpen
    /\ Unlock
    /\ IF ok
       THEN /\ channel' = conn
            /\ chanOpen' = chanOpen \cup {conn}
            /\ ws' = [ws EXCEPT ![w] = Returned("success"), ![conn] = Spawned]
            /\ UNCHANGED connOpen
       ELSE /\ channel' = Nil
            /\ connOpen' = connOpen \ {conn}
            /\ chanOpen' = chanOpen \ {conn}
            /\ ws' = FailedAttempt(IF conn \in connOpen THEN Notified(ws, conn, "nil") ELSE ws, w)
    /\ UNCHANGED <<phase, url, conn, closed, nextConn, cs, ops, panicked, closeReturned, dropped>>

\* ------------------------------------------------------------------- broker

\* The transport of an open connection fails: the connection and its channel
\* are closed and the registered receivers get a non-nil *amqp.Error.
BrokerDrop(x) ==
    /\ UNCHANGED <<broker, eventVars>>
    /\ Running
    /\ x \in connOpen
    /\ connOpen' = connOpen \ {x}
    /\ chanOpen' = chanOpen \ {x}
    /\ ws' = Notified(ws, x, "err")
    /\ dropped' = IF closed THEN dropped ELSE dropped \cup {x}
    /\ UNCHANGED <<phase, url, conn, channel, closed, mu, nextConn, cs, ops, panicked, closeReturned>>

\* ------------------------------------------------------------ specification

Next ==
    \/ \E u \in URLs, d, c \in BOOLEAN : NewClient(u, d, c)
    \/ ClientLiteral
    \/ \E p \in Callers : EnsureConnection(p)
    \/ \E p \in Callers, ok \in BOOLEAN : EnsureDial(p, ok)
    \/ \E p \in Callers, ok \in BOOLEAN : EnsureChannel(p, ok)
    \/ \E p \in Callers, ok \in BOOLEAN : PublishDeclare(p, ok)
    \/ \E p \in Callers, m, ok \in BOOLEAN : PublishSend(p, m, ok)
    \/ \E p \in Callers : HealthCheckBegin(p)
    \/ \E p \in Callers, ok \in BOOLEAN : HealthCheckIO(p, ok)
    \/ \E p \in Callers : CloseBegin(p)
    \/ \E p \in Callers, e1, e2 \in BOOLEAN : CloseTeardown(p, e1, e2)
    \/ \E w \in ConnIds : WatchSubscribe(w)
    \/ \E w \in ConnIds : WatchWake(w)
    \/ \E w \in ConnIds : BackoffSleep(w)
    \/ \E w \in ConnIds : ReconnectLock(w)
    \/ \E w \in ConnIds, ok \in BOOLEAN : ReconnectDial(w, ok)
    \/ \E w \in ConnIds, ok \in BOOLEAN : ReconnectChannel(w, ok)
    \/ \E x \in ConnIds : BrokerDrop(x)

Spec == Init /\ [][Next]_vars

TypeOK ==
    /\ phase \in {"new", "live", "failed"}
    /\ conn \in {Nil} \cup ConnIds
    /\ channel \in {Nil} \cup ConnIds
    /\ closed \in BOOLEAN
    /\ nextConn \in 0 .. MaxConns
    /\ connOpen \subseteq ConnIds
    /\ chanOpen \subseteq connOpen
    /\ ops \in 0 .. MaxOps

\* ------------------------------------------------------------------ claims

PublishCalls == {p \in Callers : cs[p].op = "Publish"}
InSequence(w) == ws[w].pc \in {"sleep", "rlock", "rdial", "rchan"}
Dialing == (\E p \in Callers : cs[p].pc = "ens_dial") \/ (\E w \in ConnIds : ws[w].pc = "rdial")
OpeningChannel == (\E p \in Callers : cs[p].pc = "ens_chan") \/ (\E w \in ConnIds : ws[w].pc = "rchan")

\* C1: once a Close() call has returned, the client never again holds an open
\* connection or channel, and a Publish call started afterwards makes no dial
\* and returns the 'closed' failure.
C1_ClosedIsTerminal ==
    closeReturned =>
        /\ conn \notin connOpen
        /\ channel \notin chanOpen
        /\ \A p \in PublishCalls :
              cs[p].after =>
                  /\ cs[p].dial = 0
                  /\ (cs[p].pc = "idle" => cs[p].res = "closedErr")

\* C2: every open connection is the one held in c.conn and every open channel
\* the one held in c.channel (so at most one of each is open); a dial starts
\* only when no connection or channel is open; and outside connect() an open
\* held connection carries the channel that was opened on it, i.e. a connection
\* whose channel-open failed has been closed when connect() returns.
C2_AtMostOneConnection ==
    /\ connOpen \subseteq {conn}
    /\ chanOpen \subseteq {channel}
    /\ Cardinality(connOpen) <= 1
    /\ Cardinality(chanOpen) <= 1
    /\ Dialing => connOpen = {} /\ chanOpen = {}
    /\ (conn \in connOpen /\ channel # conn) => OpeningChannel

\* a second connection is held open after the first one was closed
C2_Witness ==
    /\ conn >= 2
    /\ connOpen = {conn}
    /\ chanOpen = {conn}
    /\ channel = conn

\* NewClient's connection is number 1; every other connection with a watcher
\* was established by a successful attempt of a backoff-retry sequence.
SequenceMade == {x \in ConnIds : x > 1 /\ ws[x].pc # "none"}

\* C3: a backoff-retry sequence makes at most maxReconnectAttempts dial
\* attempts, each attempt of a sequence dials once, and a later abnormal close
\* (of a connection established by a successful attempt, on a client that is
\* not shut down) starts a fresh sequence: the watcher started for such a
\* connection never leaves by the graceful-close path.
C3_ReconnectSequence ==
    /\ \A w \in ConnIds :
          /\ ws[w].dials <= maxReconnectAttempts
          /\ ws[w].attempt < maxReconnectAttempts
          /\ ws[w].pc \in {"sleep", "rlock", "rdial"} => ws[w].dials = ws[w].attempt
          /\ ws[w].pc = "rchan" => ws[w].dials = ws[w].attempt + 1
    /\ \A x \in dropped \cap SequenceMade : ws[x].outcome # "graceful"

\* C4: a dial of the backoff-retry sequence is made only while the watcher
\* holds the lock under which it found the shutdown flag clear; once the flag
\* is set, a sequence in progress makes no further attempt and can only end as
\* 'closed during reconnection', never as exhausted or successful.
C4_Step(w) ==
    /\ ws'[w].pc \in {"rdial", "rchan"} => ~closed' /\ mu' = ByWatcher(w)
    /\ (closed /\ InSequence(w)) =>
          \/ ws'[w].pc \in {"sleep", "rlock"} /\ ws'[w].attempt = ws[w].attempt
          \/ ws'[w].outcome = "closedDuring"

\* C4, over every step and every watcher
C4_NoDialAfterShutdown == [][\A w \in ConnIds : C4_Step(w)]_vars

\* a sequence was aborted by a concurrent Close()
C4_Witness == closed /\ \E w \in ConnIds : ws[w].outcome = "closedDuring"

\* C5: when a backoff-retry sequence has ended in exhaustion, that failure has
\* been reported to a caller.
C5_ExhaustionReported ==
    (\E w \in ConnIds : ws[w].outcome = "exhausted")
        => \E p \in Callers : cs[p].res = "reconnectExhausted"

C7_PublishOneShot ==
    \A p \in PublishCalls :
        /\ cs[p].ens <= 1 /\ cs[p].decl <= 1 /\ cs[p].send <= 1
        /\ cs[p].send = 1 => cs[p].decl = 1
        /\ cs[p].res = "ensureErr" => cs[p].decl = 0 /\ cs[p].send = 0
        /\ cs[p].res = "declareErr" => cs[p].decl = 1 /\ cs[p].send = 0
        /\ cs[p].res \in {"ok", "publishErr"} => cs[p].decl = 1 /\ cs[p].send = 1

\* one Publish call failed at the send and another at the declare
C7_Witness ==
    \E p, q \in PublishCalls :
        /\ cs[p].res = "publishErr" /\ cs[p].send = 1
        /\ cs[q].res = "declareErr" /\ cs[q].send = 0

\* C8: no goroutine ever calls a method on a nil connection or channel.
C8_NoNilDereference == ~panicked

\* C9: no step of HealthCheck changes c.conn, c.channel or c.closed, dials or
\* closes a connection; and when the connection is absent or closed or the
\* channel is absent, HealthCheck returns its failure in the step that takes
\* the lock, without the QueueDeclare round-trip.
C9_Step(p) ==
    /\ (HealthCheckBegin(p) \/ \E ok \in BOOLEAN : HealthCheckIO(p, ok))
          => UNCHANGED <<conn, channel, closed, nextConn, connOpen>>
    /\ (HealthCheckBegin(p) /\ (conn = Nil \/ conn \notin connOpen \/ channel = Nil))
          => /\ cs'[p].res = "healthErr"
             /\ cs'[p].pc = "idle"
             /\ UNCHANGED <<mu, chanOpen>>

\* C9, over every step and every caller
C9_HealthCheckReadOnly == [][\A p \in Callers : C9_Step(p)]_vars

\* HealthCheck failed on a client whose connection is closed
C9_Witness ==
    \E p \in Callers :
        /\ cs[p].op = "HealthCheck" /\ cs[p].res = "healthErr"
        /\ conn # Nil /\ conn \notin connOpen /\ ~closed

\* C10: a Close() call made after an earlier Close() has returned reports success.
C10_CloseIdempotent ==
    \A p \in Callers :
        (cs[p].op = "Close" /\ cs[p].after /\ cs[p].pc = "idle") => cs[p].res = "ok"

\* C11: Close() sets the shutdown flag before its teardown; the teardown leaves
\* both the held channel and the held connection closed also when the channel
\* close failed; the call returns nil exactly when neither close failed, and
\* otherwise one error that names every close that failed.
C11_Step(p) ==
    /\ CloseBegin(p) => closed' /\ cs'[p].pc = "cl_io"
    /\ \A chErr, cnErr \in BOOLEAN :
          CloseTeardown(p, chErr, cnErr) =>
              /\ closed /\ closed'
              /\ conn' \notin connOpen'
              /\ channel' \notin chanOpen'
              /\ cs'[p].res = "ok" <=> (~chErr /\ ~cnErr)
              /\ chErr => cs'[p].res \in {"chanErr", "chanErr;connErr"}
              /\ cnErr => cs'[p].res \in {"connErr", "chanErr;connErr"}

\* C11, over every step and every caller
C11_CloseReportsEveryFailure == [][\A p \in Callers : C11_Step(p)]_vars

\* a Close() call whose channel close and connection close both failed
C11_Witness ==
    \E p \in Callers :
        /\ cs[p].op = "Close" /\ cs[p].res = "chanErr;connErr"
        /\ closed /\ conn # Nil /\ conn \notin connOpen /\ channel \notin chanOpen

\* C12: NewClient with a malformed or empty URL returns an error and no
\* client: no dial succeeds, nothing is retried, no close-watcher is started
\* and no call can be made; the same holds for every failed NewClient.
C12_NewClientFailsFast ==
    /\ (phase # "new" /\ ~ValidURL(url)) => phase = "failed"
    /\ phase = "failed" =>
          /\ \A w \in ConnIds : ws[w].pc = "none"
          /\ conn = Nil /\ channel = Nil
          /\ connOpen = {} /\ chanOpen = {}
          /\ nextConn <= 1
          /\ ops = 0
    /\ (phase = "failed" /\ ~ValidURL(url)) => nextConn = 0

\* NewClient("invalid://url") has returned its error
C12_Witness == phase = "failed" /\ url = "invalid://url" /\ nextConn = 0

\* the connection made by NewClient is up and nothing has disturbed it
Healthy == ~closed /\ conn # Nil /\ conn \in connOpen /\ channel = conn /\ channel \in chanOpen

\* the publishings of caller p, in the order the broker received them
RECURSIVE From(_, _)
From(log, p) ==
    IF log = <<>> THEN <<>>
    ELSE IF Head(log).from = p THEN <<Head(log).msg>> \o From(Tail(log), p)
    ELSE From(Tail(log), p)

Increasing(s) == \A i, j \in 1 .. Len(s) : i < j => s[i] < s[j]

C13_Step(p) ==
    /\ (EnsureConnection(p) /\ Healthy) =>
          /\ cs'[p].pc = "pub_lock"
          /\ UNCHANGED <<conn, channel, connOpen, chanOpen, nextConn>>
    /\ \A ok \in BOOLEAN :
          (PublishDeclare(p, ok) /\ Healthy) =>
              /\ ~panicked'
              /\ ok => cs'[p].pc = "pub_send" /\ mu' = ByCaller(p)
              /\ ~ok => cs'[p].res = "declareErr"
    /\ \A msgOk, ok \in BOOLEAN :
          PublishSend(p, msgOk, ok) =>
              /\ mu = ByCaller(p) /\ mu' = Free
              /\ (msgOk /\ ok) =>
                    /\ cs'[p].res = "ok"
                    /\ broker' = Append(broker, [from |-> p, msg |-> cs[p].msg, mode |-> Persistent])
              /\ ~(msgOk /\ ok) => cs'[p].res # "ok" /\ broker' = broker

\* C13: on a healthy connection a Publish call takes the cheap path, declares
\* and sends under the lock and returns nil exactly when the broker accepted the
\* publishing; concurrent calls do not disturb each other; the broker receives
\* one persistent publishing per successful call, each caller's publishings in
\* the order that caller sent them, and no publishing twice.
C13_ConcurrentPublish ==
    [][ /\ \A p \in Callers : C13_Step(p)
        /\ (\A p \in Callers, m, ok \in BOOLEAN : ~PublishSend(p, m, ok)) => broker' = broker
        /\ \A p \in Callers : Increasing(From(broker', p))
        /\ \A i \in 1 .. Len(broker') : broker'[i].mode = Persistent ]_vars

\* both callers' Publish calls have returned nil on the connection NewClient
\* made, and the broker holds the two publishings, caller 2's first
C13_Witness ==
    /\ Healthy /\ nextConn = 1 /\ dropped = {}
    /\ \A p \in Callers : cs[p].op = "Publish" /\ cs[p].res = "ok" /\ cs[p].pc = "idle"
    /\ broker = <<[from |-> 2, msg |-> 1, mode |-> Persistent],
                  [from |-> 1, msg |-> 1, mode |-> Persistent]>>

\* ------------------------------------------------------------ package event
\* A Go string is the sequence of its characters; a Go map is nil or a function
\* from its keys to their values; a Go slice is nil or a sequence.

MaxLen == 4        \* length of the string handed to ParseContainerNames
MaxEntries == 2    \* entries of the annotation mapping

\* event.go line 13
AnnotationPrefix ==
    <<"c", "e", "r", "t", "-", "w", "e", "b", "h", "o", "o", "k", ".", "g", "o", "l", "d", "e", "r", ".", "t", "e", "c", "h", "/">>
\* event.go line 16
DefaultExchange ==
    <<"c", "e", "r", "t", "i", "f", "i", "c", "a", "t", "e", "-", "e", "v", "e", "n", "t", "s">>
\* event.go line 19
DefaultRoutingKey ==
    <<"c", "e", "r", "t", "i", "f", "i", "c", "a", "t", "e", ".", "r", "e", "n", "e", "w", "e", "d">>

\* the annotation suffixes event.go reads (lines 47-50, 64, 69)
SuffixTarget == <<"t", "a", "r", "g", "e", "t">>
SuffixDockerEngine == <<"d", "o", "c", "k", "e", "r", "-", "e", "n", "g", "i", "n", "e">>
SuffixDockerComposePath ==
    <<"d", "o", "c", "k", "e", "r", "-", "c", "o", "m", "p", "o", "s", "e", "-", "p", "a", "t", "h">>
SuffixContainerNames ==
    <<"c", "o", "n", "t", "a", "i", "n", "e", "r", "-", "n", "a", "m", "e", "s">>
SuffixExchange ==
    <<"r", "a", "b", "b", "i", "t", "m", "q", "-", "e", "x", "c", "h", "a", "n", "g", "e">>
SuffixRoutingKey ==
    <<"r", "a", "b", "b", "i", "t", "m", "q", "-", "r", "o", "u", "t", "i", "n", "g", "-", "k", "e", "y">>

\* m[k]: the value stored under k, or the zero value "" (also on a nil map)
Lookup(m, k) == IF k \in DOMAIN m.kv THEN m.kv[k] ELSE <<>>

\* unicode.IsSpace, restricted to the characters of the inputs
IsSpace(c) == c \in {" ", "\t", "\n", "\r"}

\* strings.TrimLeftFunc(s, unicode.IsSpace)
RECURSIVE TrimLeft(_)
TrimLeft(s) ==
    IF s = <<>> THEN <<>>
    ELSE IF IsSpace(Head(s)) THEN TrimLeft(Tail(s)) ELSE s

\* strings.TrimRightFunc(s, unicode.IsSpace)
RECURSIVE TrimRight(_)
TrimRight(s) ==
    IF s = <<>> THEN <<>>
    ELSE IF IsSpace(s[Len(s)]) THEN TrimRight(SubSeq(s, 1, Len(s) - 1)) ELSE s

\* variant: only leading white space is removed
TrimSpaceLeftOnly(s) == TrimLeft(s)

\* strings.TrimSpace
TrimSpace(s) == TrimRight(TrimLeft(s))

\* strings.Index(s, sep) for a one-character separator: 0 when absent
RECURSIVE IndexFrom(_, _, _)
IndexFrom(s, sep, i) ==
    IF i > Len(s) THEN 0
    ELSE IF s[i] = sep THEN i ELSE IndexFrom(s, sep, i + 1)

\* strings.SplitSeq(s, sep): the pieces between separators, empty ones included
RECURSIVE SplitSeq(_, _)
SplitSeq(s, sep) ==
    LET i == IndexFrom(s, sep, 1) IN
    IF i = 0 THEN <<s>>
    ELSE <<SubSeq(s, 1, i - 1)>> \o SplitSeq(SubSeq(s, i + 1, Len(s)), sep)

\* the loop of ParseContainerNames, lines 84-88
RECURSIVE AppendTrimmed(_, _)
AppendTrimmed(names, pieces) ==
    IF pieces = <<>> THEN names
    ELSE LET trimmed == TrimSpace(Head(pieces)) IN
         AppendTrimmed(IF trimmed # <<>> THEN Append(names, trimmed) ELSE names, Tail(pieces))

\* ParseContainerNames, lines 78-90
ParseContainerNames(containerNamesStr) ==
    IF containerNamesStr = <<>>
    THEN [nil |-> FALSE, elems |-> <<>>]
    ELSE [nil |-> FALSE, elems |-> AppendTrimmed(<<>>, SplitSeq(containerNamesStr, ","))]

\* variant: the prefix may occur anywhere in the key
HasPrefixAnywhere(k, prefix) ==
    \E i \in 1 .. Len(k) :
        i + Len(prefix) - 1 <= Len(k) /\ SubSeq(k, i, i + Len(prefix) - 1) = prefix

\* strings.HasPrefix
HasPrefix(k, prefix) == Len(k) >= Len(prefix) /\ SubSeq(k, 1, Len(prefix)) = prefix

\* FilterAnnotations, lines 93-101
FilterAnnotations(annotations, prefix) ==
    [nil |-> FALSE,
     kv |-> [k \in {x \in DOMAIN annotations.kv : HasPrefix(x, prefix)} |-> annotations.kv[k]]]

\* variant: a default is used only when the annotation is absent
ExchangeAndRoutingKeyWhenAbsent(annotations) ==
    [exchange |-> IF AnnotationPrefix \o SuffixExchange \in DOMAIN annotations.kv
                  THEN annotations.kv[AnnotationPrefix \o SuffixExchange]
                  ELSE DefaultExchange,
     routingKey |-> IF AnnotationPrefix \o SuffixRoutingKey \in DOMAIN annotations.kv
                    THEN annotations.kv[AnnotationPrefix \o SuffixRoutingKey]
                    ELSE DefaultRoutingKey]

\* ExchangeAndRoutingKey, lines 63-75
ExchangeAndRoutingKey(annotations) ==
    LET exchange == Lookup(annotations, AnnotationPrefix \o SuffixExchange)
        routingKey == Lookup(annotations, AnnotationPrefix \o SuffixRoutingKey)
    IN [exchange |-> IF exchange = <<>> THEN DefaultExchange ELSE exchange,
        routingKey |-> IF routingKey = <<>> THEN DefaultRoutingKey ELSE routingKey]

\* event.go lines 44 and 53
EventRenewed ==
    <<"c", "e", "r", "t", "i", "f", "i", "c", "a", "t", "e", ".", "r", "e", "n", "e", "w", "e", "d">>
TriggerName ==
    <<"c", "e", "r", "t", "-", "m", "a", "n", "a", "g", "e", "r", "-", "w", "e", "b", "h", "o", "o", "k">>

\* NewMessage, lines 38-59; now is time.Now().Unix()
NewMessage(name, namespace, secretName, labels, annotations, now) ==
    LET a == IF annotations.nil THEN MakeMap ELSE annotations IN
    [event |-> EventRenewed,
     certificate |-> name,
     namespace |-> namespace,
     secret_name |-> secretName,
     target_type |-> Lookup(a, AnnotationPrefix \o SuffixTarget),
     docker_engine |-> Lookup(a, AnnotationPrefix \o SuffixDockerEngine),
     docker_compose_path |-> Lookup(a, AnnotationPrefix \o SuffixDockerComposePath),
     container_names |-> ParseContainerNames(Lookup(a, AnnotationPrefix \o SuffixContainerNames)),
     timestamp |-> now,
     trigger |-> TriggerName,
     metadata |-> [labels |-> labels, annotations |-> FilterAnnotations(a, AnnotationPrefix)]]

\* ---- the arguments the functions of package event are applied to

Alphabet == {"a", "b", ",", " "}
Strings == UNION {[1 .. n -> Alphabet] : n \in 0 .. MaxLen}

\* annotation keys: the two routing overrides, two keys NewMessage reads, a key
\* under the prefix with an unrecognised suffix, and three keys not under it
Keys ==
    { AnnotationPrefix \o SuffixExchange,
      AnnotationPrefix \o SuffixRoutingKey,
      AnnotationPrefix \o SuffixContainerNames,
      AnnotationPrefix \o SuffixTarget,
      AnnotationPrefix \o <<"x">>,
      <<"a", "p", "p">>,
      SubSeq(AnnotationPrefix, 1, Len(AnnotationPrefix) - 1),
      <<"x">> \o AnnotationPrefix \o SuffixTarget }

Values == {<<>>, <<"x">>, <<"b", ",", " ", "a", ",">>}

Maps ==
    {NilMap} \cup
    UNION { {[nil |-> FALSE, kv |-> f] : f \in [S -> Values]} :
            S \in {D \in SUBSET Keys : Cardinality(D) <= MaxEntries} }

LabelMaps == {NilMap, MakeMap, [nil |-> FALSE, kv |-> [k \in {<<"a", "p", "p">>} |-> <<"x">>]]}

Names == {<<>>, <<"c">>}

\* values of time.Now().Unix()
Times == {1, 2}

InitEvent ==
    /\ InitClient
    /\ evIn \in
          {[NoArguments EXCEPT !.str = str] : str \in Strings} \cup
          {[str |-> <<>>, name |-> n, namespace |-> <<"n">>, secretName |-> <<"s">>,
            labels |-> l, annotations |-> a] : n \in Names, l \in LabelMaps, a \in Maps}
    /\ evOut = NotApplied

CallExchangeAndRoutingKey ==
    /\ evOut = NotApplied
    /\ evOut' = [fn |-> "ExchangeAndRoutingKey", pair |-> ExchangeAndRoutingKey(evIn.annotations)]
    /\ UNCHANGED <<evIn, clientVars>>

CallParseContainerNames ==
    /\ evOut = NotApplied
    /\ evOut' = [fn |-> "ParseContainerNames", names |-> ParseContainerNames(evIn.str)]
    /\ UNCHANGED <<evIn, clientVars>>

CallFilterAnnotations ==
    /\ evOut = NotApplied
    /\ evOut' = [fn |-> "FilterAnnotations",
                 filtered |-> FilterAnnotations(evIn.annotations, AnnotationPrefix)]
    /\ UNCHANGED <<evIn, clientVars>>

CallNewMessage(now) ==
    /\ evOut = NotApplied
    /\ evOut' = [fn |-> "NewMessage",
                 message |-> NewMessage(evIn.name, evIn.namespace, evIn.secretName,
                                        evIn.labels, evIn.annotations, now)]
    /\ UNCHANGED <<evIn, clientVars>>

NextEvent ==
    \/ CallExchangeAndRoutingKey
    \/ CallParseContainerNames
    \/ CallFilterAnnotations
    \/ \E now \in Times : CallNewMessage(now)

SpecEvent == InitEvent /\ [][NextEvent]_vars

\* ExchangeAndRoutingKey has been applied to the annotations a
Resolved(a) == evOut.fn = "ExchangeAndRoutingKey" /\ evIn.annotations = a

\* the override stored under key k: present and not the empty string
Override(a, k) == k \in DOMAIN a.kv /\ a.kv[k] # <<>>

\* C14: for every annotation mapping, nil included, ExchangeAndRoutingKey
\* returns a non-empty exchange and a non-empty routing key; each is its
\* override when that is present and non-empty and its own default otherwise,
\* whatever the other one is.
C14_RoutingTargetNeverEmpty ==
    \A a \in Maps :
        Resolved(a) =>
            LET kx == AnnotationPrefix \o SuffixExchange
                kr == AnnotationPrefix \o SuffixRoutingKey
            IN /\ evOut.pair.exchange # <<>>
               /\ evOut.pair.routingKey # <<>>
               /\ evOut.pair.exchange = IF Override(a, kx) THEN a.kv[kx] ELSE DefaultExchange
               /\ evOut.pair.routingKey = IF Override(a, kr) THEN a.kv[kr] ELSE DefaultRoutingKey

\* the exchange override is present with an empty value, the routing key
\* override is set: the exchange falls back, the routing key does not
C14_Witness ==
    /\ evOut.fn = "ExchangeAndRoutingKey"
    /\ ~evIn.annotations.nil
    /\ DOMAIN evIn.annotations.kv = {AnnotationPrefix \o SuffixExchange, AnnotationPrefix \o SuffixRoutingKey}
    /\ evIn.annotations.kv[AnnotationPrefix \o SuffixExchange] = <<>>
    /\ evIn.annotations.kv[AnnotationPrefix \o SuffixRoutingKey] = <<"x">>
    /\ evOut.pair = [exchange |-> DefaultExchange, routingKey |-> <<"x">>]

\* positions of s at which a piece of the split on ',' begins
PieceStarts(s) == {i \in 1 .. Len(s) + 1 : i = 1 \/ s[i - 1] = ","}

\* the positions of the piece beginning at i that hold no white space
Inked(s, i) ==
    {j \in i .. Len(s) : s[j] \notin {",", " "} /\ \A m \in i .. j : s[m] # ","}

Least(S) == CHOOSE x \in S : \A y \in S : x <= y
Greatest(S) == CHOOSE x \in S : \A y \in S : y <= x

\* the pieces of s that are more than white space
Tokens(s) == {i \in PieceStarts(s) : Inked(s, i) # {}}

\* C15: ParseContainerNames returns a non-nil sequence without empty elements:
\* the pieces of the input between commas that hold more than white space, each
\* stripped of surrounding white space, from left to right; the empty input
\* gives the empty sequence.
C15_ContainerNamesAreTheTokens ==
    evOut.fn = "ParseContainerNames" =>
        LET s == evIn.str
            out == evOut.names
        IN /\ ~out.nil
           /\ s = <<>> => out.elems = <<>>
           /\ \A k \in 1 .. Len(out.elems) : out.elems[k] # <<>>
           /\ Len(out.elems) = Cardinality(Tokens(s))
           /\ \A i \in Tokens(s) :
                 out.elems[Cardinality({t \in Tokens(s) : t <= i})] =
                     SubSeq(s, Least(Inked(s, i)), Greatest(Inked(s, i)))

\* "b , a" written with MaxLen characters gives ["b", "a"]
C15_Witness ==
    /\ evOut.fn = "ParseContainerNames"
    /\ evIn.str = <<"b", " ", ",", "a">>
    /\ evOut.names = [nil |-> FALSE, elems |-> << <<"b">>, <<"a">> >>]

\* C16: NewMessage with nil labels and nil annotations gives a message whose
\* metadata labels and annotations are both empty non-nil mappings, whose
\* optional string fields are empty strings and whose container_names is an
\* empty non-nil sequence.
C16_NilMapsGiveEmptyFields ==
    (evOut.fn = "NewMessage" /\ evIn.labels.nil /\ evIn.annotations.nil) =>
        LET m == evOut.message
        IN /\ m.metadata.labels = MakeMap
           /\ m.metadata.annotations = MakeMap
           /\ m.target_type = <<>>
           /\ m.docker_engine = <<>>
           /\ m.docker_compose_path = <<>>
           /\ m.container_names = [nil |-> FALSE, elems |-> <<>>]

\* k is the prefix followed by some suffix
UnderPrefix(k) == \E n \in 0 .. Len(k) : k = AnnotationPrefix \o SubSeq(k, Len(k) - n + 1, Len(k))

\* out holds exactly the entries of a whose key is under the prefix
PrefixedEntries(a, out) ==
    /\ ~out.nil
    /\ DOMAIN out.kv = {k \in DOMAIN a.kv : UnderPrefix(k)}
    /\ \A k \in DOMAIN out.kv : out.kv[k] = a.kv[k]

\* C17: for every annotation mapping, nil included, FilterAnnotations returns
\* a non-nil mapping holding exactly the entries whose key starts with the
\* prefix, values unchanged; NewMessage stores that mapping as
\* metadata.annotations, recognised suffix or not.
C17_ExactlyThePrefixedEntries ==
    /\ evOut.fn = "FilterAnnotations" => PrefixedEntries(evIn.annotations, evOut.filtered)
    /\ evOut.fn = "NewMessage" => PrefixedEntries(evIn.annotations, evOut.message.metadata.annotations)

\* a message built from one key with an unrecognised suffix under the prefix
\* and one key that contains the prefix but does not start with it
C17_Witness ==
    /\ evOut.fn = "NewMessage"
    /\ ~evIn.annotations.nil
    /\ DOMAIN evIn.annotations.kv =
          {AnnotationPrefix \o <<"x">>, <<"x">> \o AnnotationPrefix \o SuffixTarget}
    /\ evIn.annotations.kv[AnnotationPrefix \o <<"x">>] = <<"x">>
    /\ DOMAIN evOut.message.metadata.annotations.kv = {AnnotationPrefix \o <<"x">>}
    /\ evOut.message.metadata.annotations.kv[AnnotationPrefix \o <<"x">>] = <<"x">>

\* NewClient returned this client: it started the first watcher
MadeByNewClient == ws[1].pc # "none"

\* some watcher goroutine is subscribed to connection x, is about to subscribe
\* to the connection held, has been sent an abnormal close, or is in the
\* backoff-retry sequence
Watched(x) ==
    \E w \in ConnIds :
        \/ ws[w].pc = "sub"
        \/ ws[w].pc = "wait" /\ ws[w].sub = x
        \/ ws[w].pc = "wait" /\ ws[w].note = "err"
        \/ InSequence(w)

\* C18: every connection the client has established and holds, whoever dialed
\* it, has a close-watcher, so that its abnormal close starts the backoff-retry
\* sequence.
C18_EveryConnectionWatched ==
    \A x \in ConnIds :
        (MadeByNewClient /\ ~closed /\ mu = Free /\ conn = x /\ channel = x
            /\ x \in connOpen /\ x \in chanOpen
            /\ \A w \in ConnIds : ws[w].note # "nil" /\ ws[w].outcome # "graceful") => Watched(x)

\* C19: ensureConnection returns without reconnecting only when the connection
\* and the channel are both open; with the connection open and the channel
\* closed it reconnects.
C19_Step(p) ==
    EnsureConnection(p) =>
        /\ cs'[p].pc = "pub_lock" => conn \in connOpen /\ channel \in chanOpen
        /\ (conn \in connOpen /\ channel \notin chanOpen) => cs'[p].pc = "ens_dial"

\* C19, over every step and every caller
C19_CheapPathOnlyWhenOpen == [][\A p \in Callers : C19_Step(p)]_vars

\* the callers and the watchers that are in the middle of broker I/O: between
\* the dial and the channel-open of a reconnect, between the declare and the
\* send of Publish, in the round-trip of HealthCheck, in the teardown of Close
CallersInIO == {p \in Callers : cs[p].pc \in {"ens_dial", "ens_chan", "pub_send", "hc_io", "cl_io"}}
WatchersInIO == {w \in ConnIds : ws[w].pc \in {"rdial", "rchan"}}

\* C20: the declare and send of Publish, the round-trip of HealthCheck, a
\* reconnect (close-old, dial, channel-open) and the teardown of Close run
\* while the goroutine holds c.mu, so no two of them are in progress at once.
C20_IOUnderLock ==
    /\ \A p \in CallersInIO : mu = ByCaller(p)
    /\ \A w \in WatchersInIO : mu = ByWatcher(w)
    /\ Cardinality(CallersInIO) + Cardinality(WatchersInIO) <= 1
    /\ (CallersInIO = {} /\ WatchersInIO = {}) => mu = Free

\* the watcher is dialing under the lock while a Publish call that has passed
\* ensureConnection waits for the lock to declare
C20_Witness ==
    \E w \in ConnIds, p \in Callers :
        /\ ws[w].pc = "rdial" /\ mu = ByWatcher(w)
        /\ cs[p].pc = "pub_lock"

\* C21: once NewClient has returned the client, every step that reads or
\* writes c.conn, c.channel or c.closed is taken by the goroutine that holds
\* c.mu: the dial and channel-open of ensureConnection, the send of Publish,
\* the round-trip of HealthCheck, the teardown of Close, the dial and
\* channel-open of the backoff-retry sequence, and the watcher's subscription
\* to the close notification of c.conn.
C21_Step ==
    /\ \A p \in Callers, ok \in BOOLEAN :
          (EnsureDial(p, ok) \/ EnsureChannel(p, ok) \/ HealthCheckIO(p, ok)) => mu = ByCaller(p)
    /\ \A p \in Callers, a, b \in BOOLEAN :
          (PublishSend(p, a, b) \/ CloseTeardown(p, a, b)) => mu = ByCaller(p)
    /\ \A w \in ConnIds, ok \in BOOLEAN :
          (ReconnectDial(w, ok) \/ ReconnectChannel(w, ok)) => mu = ByWatcher(w)
    /\ \A w \in ConnIds : WatchSubscribe(w) => mu = ByWatcher(w)

\* C21, over every step
C21_FieldAccessUnderLock == [][C21_Step]_vars

\* the sleeps of the claim, in seconds, before attempts 0 .. 4
ClaimedSleeps == <<1, 2, 4, 8, 16>>

RECURSIVE SleptBefore(_)
SleptBefore(n) == IF n = 0 THEN 0 ELSE SleptBefore(n - 1) + ClaimedSleeps[n]

\* C22: the sleep before 0-indexed attempt i is min(1s * 2^i, 30s); over the 5
\* attempts the sleeps are 1, 2, 4, 8, 16 seconds, non-decreasing, never above
\* the 30 s cap, 31 s in all when the sequence gives up.
C22_BackoffSchedule ==
    /\ \A i \in 0 .. 4 :
          /\ SleptBefore(i + 1) - SleptBefore(i) <= 30
          /\ i > 0 => ClaimedSleeps[i + 1] >= ClaimedSleeps[i]
    /\ SleptBefore(5) = 31
    /\ \A w \in ConnIds :
          /\ InSequence(w) => ws[w].attempt \in 0 .. 4
          /\ ws[w].pc = "sleep" => ws[w].slept = SleptBefore(ws[w].attempt)
          /\ ws[w].pc \in {"rlock", "rdial", "rchan"} =>
                /\ ws[w].slept = SleptBefore(ws[w].attempt + 1)
                /\ ws[w].slept - SleptBefore(ws[w].attempt) = ClaimedSleeps[ws[w].attempt + 1]
                /\ ws[w].slept <= 31

\* the fifth attempt of a sequence is about to dial, 31 s after the sequence began
C22_Witness ==
    \E w \in ConnIds : ws[w].pc = "rdial" /\ ws[w].attempt = 4 /\ ws[w].slept = 31

\* C23: between the return of its ensureConnection and its declare, a Publish
\* call is not overtaken: no other goroutine takes c.mu to reconnect or to
\* close, so c.conn, c.channel and c.closed are at the declare what they were
\* when ensureConnection verified them.
C23_Step(p) ==
    (cs[p].pc = "pub_lock" /\ cs'[p].pc = "pub_lock") =>
        /\ UNCHANGED <<conn, channel, closed>>
        /\ \A q \in Callers : cs'[q].pc \notin {"ens_dial", "ens_chan", "cl_io"}
        /\ \A w \in ConnIds : ws'[w].pc \notin {"rdial", "rchan"}

\* C23, over every step and every caller
C23_EnsureAndDeclareAtomic == [][\A p \in Callers : C23_Step(p)]_vars

\* C24: an attempt of the backoff-retry sequence that finds an open connection
\* with an open channel - made meanwhile by a Publish call through
\* ensureConnection - leaves them open and dials no replacement.
C24_Step(w) ==
    (ReconnectLock(w) /\ Healthy) =>
        /\ conn \in connOpen' /\ channel \in chanOpen'
        /\ ws'[w].pc # "rdial"

\* C24, over every step and every watcher
C24_HealthyConnectionKept == [][\A w \in ConnIds : C24_Step(w)]_vars

\* C25: whenever c.mu is free, c.channel is non-nil only if c.conn is non-nil
\* and the channel was opened on that connection; after a failed dial or a
\* failed channel-open no channel of an earlier connection is kept.
C25_FieldsConsistent ==
    (phase = "live" /\ mu = Free /\ channel # Nil) => (conn # Nil /\ channel = conn)

\* a backoff-retry sequence has given up after maxReconnectAttempts attempts
Exhausted == \E w \in ConnIds : ws[w].outcome = "exhausted"

\* C26: after a backoff-retry sequence has been exhausted, on a client that is
\* not shut down, a Publish call that finds the connection down dials afresh
\* through ensureConnection; when the dial and the channel-open succeed the
\* call goes on to declare, and when the broker accepts the declare and the
\* publishing it returns nil.
C26_Step(p) ==
    Exhausted =>
        /\ (EnsureConnection(p) /\ ~closed /\ conn \notin connOpen) =>
              /\ cs'[p].pc = "ens_dial"
              /\ mu' = ByCaller(p)
        /\ EnsureDial(p, TRUE) => (cs'[p].pc = "ens_chan" /\ conn' \in connOpen' /\ conn' # conn)
        /\ EnsureChannel(p, TRUE) => (cs'[p].pc = "pub_lock" /\ channel' = conn /\ channel' \in chanOpen')
        /\ (PublishDeclare(p, TRUE) /\ channel # Nil) => cs'[p].pc = "pub_send"
        /\ PublishSend(p, TRUE, TRUE) => cs'[p].res = "ok"

\* C26, over every step and every caller
C26_ExhaustionNotTerminal == [][\A p \in Callers : C26_Step(p)]_vars

\* the sequence gave up, and a later Publish call dialed afresh and was served
C26_Witness ==
    /\ Exhausted /\ ~closed
    /\ \E p \in Callers :
          /\ cs[p].op = "Publish" /\ cs[p].res = "ok" /\ cs[p].dial = 1
          /\ conn = 2 /\ conn \in connOpen /\ channel = conn
          /\ Len(broker) = 1 /\ broker[1].from = p

====
